---- MODULE Spec2Model ----
(***************************************************************************)
(* SimSIMD similarity kernels (include/simsimd/simsimd.h) as a state       *)
(* machine: one kernel call per behaviour.  Init fixes the kernel, the two *)
(* buffers, the length d and the hardware/build parameters; every loop     *)
(* iteration of the called kernel is one step; the reduction and the       *)
(* return is the last step.                                                *)
(*                                                                         *)
(* Vectors are functions from lane index to value.  An SVE predicate is    *)
(* the set of byte-lane indices whose predicate bit is set, so that a      *)
(* predicate built for one element width can be used, as the code does,    *)
(* by an instruction of another width.                                     *)
(*                                                                         *)
(* A load past the declared length of a buffer reads whatever the memory   *)
(* after the buffer holds: padA / padB, chosen in Init.  The inactive      *)
(* lanes of a don't-care (_x) SVE instruction hold what the instruction    *)
(* form picked by the build leaves there: xform, chosen in Init.           *)
(***************************************************************************)
EXTENDS Integers, FiniteSets, Sequences, TLC

\* ---------------------------------------------------------------- bounds
\* longest input of the fixed-width kernels, in units of their precondition
MaxBlocks == 2
\* longest input of the scalable float kernels, in elements
MaxElems == 9
\* longest tail, in bytes, of the inputs of the scalable Hamming kernel
MaxTailBytes == 2
\* width of the modelled size_t counter
SizeBits == 16

SizeMod == 2 ^ SizeBits

\* ------------------------------------------------------- kernels by name
SveF32 == {"simsimd_dot_f32sve", "simsimd_cos_f32sve", "simsimd_euclidean_f32sve"}
SveF16 == {"simsimd_dot_f16sve", "simsimd_euclidean_f16sve"}
SveU8 == {"simsimd_hamming_u1x8sve"}
SveKernels == SveF32 \cup SveF16 \cup SveU8
NeonF32 == {"simsimd_dot_f32x4neon", "simsimd_cos_f32x4neon"}
NeonU8 == {"simsimd_hamming_u1x128sve"}
Avx2F32 == {"simsimd_dot_f32x4avx2", "simsimd_cos_f32x4avx2"}
Avx2I8 == {"simsimd_dot_i8x16avx2"}
Avx512U8 == {"simsimd_hamming_u1x128avx512"}
FixedKernels == NeonF32 \cup NeonU8 \cup Avx2F32 \cup Avx2I8 \cup Avx512U8
Kernels == SveKernels \cup FixedKernels
HammingKernels == SveU8 \cup NeonU8 \cup Avx512U8
DotKernels == {"simsimd_dot_f32sve", "simsimd_dot_f16sve", "simsimd_dot_f32x4neon",
               "simsimd_dot_f32x4avx2", "simsimd_dot_i8x16avx2"}
CosKernels == {"simsimd_cos_f32sve", "simsimd_cos_f32x4neon", "simsimd_cos_f32x4avx2"}
EuclideanKernels == {"simsimd_euclidean_f32sve", "simsimd_euclidean_f16sve"}

\* sizeof the element type of the kernel's buffers, in bytes
ElemBytes(k) ==
    IF k \in SveF32 \cup NeonF32 \cup Avx2F32 THEN 4
    ELSE IF k \in SveF16 THEN 2
    ELSE 1

\* the declared length of a buffer, in elements of the kernel's pointer type:
\* d elements, or the bytes that hold d bits
DeclLen(k, dd) == IF k \in HammingKernels THEN (dd + 7) \div 8 ELSE dd

\* ------------------------------------------------------ scalar helpers
Max(x, y) == IF x >= y THEN x ELSE y

\* the vector of n lanes whose lane k, counted from 0, is F(k)
Vec(n, F(_)) == [k \in 1..n |-> F(k - 1)]

\* lane k, counted from 0, of a vector or element k of a buffer
Lane(v, k) == v[k + 1]

RECURSIVE SumTo(_, _)
\* the sum of the first n lanes of v
SumTo(v, n) == IF n = 0 THEN 0 ELSE v[n] + SumTo(v, n - 1)

Bit(x, k) == (x \div (2 ^ k)) % 2

\* bitwise exclusive or of two bytes
Xor8(x, y) ==
    LET t == Vec(8, LAMBDA k : IF Bit(x, k) # Bit(y, k) THEN 2 ^ k ELSE 0)
    IN SumTo(t, 8)

\* number of set bits of a byte
Popcnt8(x) == SumTo(Vec(8, LAMBDA k : Bit(x, k)), 8)

Zeros(n) == Vec(n, LAMBDA k : 0)

\* ------------------------------------------------------------- state
VARIABLES
    kernel,     \* the kernel that was called
    a, b,       \* the two buffers, DeclLen(kernel, d) elements each
    d,          \* the length argument
    padA, padB, \* what the memory after a and after b holds
    cntb,       \* svcntb(): bytes per scalable vector of the hardware
    xform,      \* the instruction form the build picked for the _x intrinsics
    pc,         \* "loop", "exit" (scalable loop left), "done" (returned)
    i,          \* size_t i
    pg_vec,     \* svbool_t pg_vec
    ab_vec, a2_vec, b2_vec, d2_vec, d_vec, \* the accumulators, by their names
    ab_vec_ba, d_vec_ba, \* the accumulators of the same call with a and b swapped
    result, result_ba,   \* the returned value, of the call and of the swapped call
    iters,      \* loop bodies executed
    reads       \* 1 + the largest element index loaded so far, 0 when none

inputs == <<kernel, a, b, d, padA, padB, cntb, xform>>
accs == <<ab_vec, a2_vec, b2_vec, d2_vec, d_vec, ab_vec_ba, d_vec_ba>>
vars == <<inputs, pc, i, pg_vec, accs, result, result_ba, iters, reads>>

len == DeclLen(kernel, d)

\* the element at index n of a buffer: inside the declared length the buffer's,
\* past it the memory's
Read(buf, pad, n) == IF n < len THEN Lane(buf, n) ELSE pad

\* -------------------------------------------------- SVE intrinsics (ACLE)
\* svcntw(), svcnth(), svcntb(): lanes of es bytes per vector
svcnt(es) == cntb \div es

\* svwhilele in place of svwhilelt: the lane at lo + k = hi stays active
svwhilele(es, lo, hi) == {es * k : k \in {k \in 0..(svcnt(es) - 1) : lo + k <= hi}}

\* svwhilelt_b8/_b16/_b32(lo, hi): the predicate bit of element k (at byte lane
\* es * k) is set iff lo + k < hi, compared without wraparound
svwhilelt(es, lo, hi) == {es * k : k \in {k \in 0..(svcnt(es) - 1) : lo + k < hi}}

\* svptrue_b8/_b16/_b32()
svptrue(es) == {es * k : k \in 0..(svcnt(es) - 1)}

\* svptest_any(pgov, pg)
svptest_any(pgov, pg) == (pgov \cap pg) # {}

\* svld1_f32/_f16/_u8(pg, base + off): inactive lanes are zero and not accessed
svld1(es, pg, buf, pad, off) ==
    Vec(svcnt(es), LAMBDA k : IF es * k \in pg THEN Read(buf, pad, off + k) ELSE 0)

\* 1 + the largest index svld1 accesses, 0 when no lane is active
svld1Extent(es, pg, off) ==
    LET act == {k \in 0..(svcnt(es) - 1) : es * k \in pg}
    IN IF act = {} THEN 0 ELSE off + 1 + CHOOSE k \in act : \A m \in act : m <= k

\* what an inactive lane of a _x result holds: the lane of the operand the
\* merging instruction form is tied to, or zero under a zeroing prefix
XInactive(tied_acc, tied_op) ==
    CASE xform = "merge_acc" -> tied_acc
      [] xform = "merge_op" -> tied_op
      [] OTHER -> 0

\* svmla_f32_x / svmla_f16_x (pg, acc, x, y)
svmla_x(es, pg, acc, x, y) ==
    Vec(svcnt(es), LAMBDA k :
        IF es * k \in pg THEN Lane(acc, k) + Lane(x, k) * Lane(y, k)
        ELSE XInactive(Lane(acc, k), Lane(x, k)))

\* svsub_f32_x / svsub_f16_x (pg, x, y)
svsub_x(es, pg, x, y) ==
    Vec(svcnt(es), LAMBDA k :
        IF es * k \in pg THEN Lane(x, k) - Lane(y, k)
        ELSE XInactive(Lane(x, k), Lane(y, k)))

\* sveor_u8_m(pg, x, y): inactive lanes keep x
sveor_u8_m(pg, x, y) ==
    Vec(cntb, LAMBDA k : IF k \in pg THEN Xor8(Lane(x, k), Lane(y, k)) ELSE Lane(x, k))

\* svcnt_u8_x(pg, x)
svcnt_u8_x(pg, x) ==
    Vec(cntb, LAMBDA k :
        IF k \in pg THEN Popcnt8(Lane(x, k)) ELSE XInactive(Lane(x, k), Lane(x, k)))

\* svadd_u8_m(pg, x, y): 8-bit lanes, inactive lanes keep x
svadd_u8_m(pg, x, y) ==
    Vec(cntb, LAMBDA k : IF k \in pg THEN (Lane(x, k) + Lane(y, k)) % 256 ELSE Lane(x, k))

\* svaddv_f32/_f16/_u8(pg, v): the sum of the active lanes
svaddv(es, pg, v) ==
    SumTo(Vec(svcnt(es), LAMBDA k : IF es * k \in pg THEN Lane(v, k) ELSE 0), svcnt(es))

\* the value of sqrt(x), kept as its radicand: it is 0 iff x = 0
SqrtOf(x) == [sqrt |-> x]

\* the value of ab / (sqrt(a2) * sqrt(b2)), kept as its three operands
CosOf(ab, a2, b2) == [ab |-> ab, a2 |-> a2, b2 |-> b2]

\* ------------------------------------------------------ NEON intrinsics
\* vld1q_f32(base + off)
vld1q_f32(buf, pad, off) == Vec(4, LAMBDA k : Read(buf, pad, off + k))

\* vmlaq_f32(acc, x, y)
vmlaq_f32(acc, x, y) == Vec(4, LAMBDA k : Lane(acc, k) + Lane(x, k) * Lane(y, k))

\* vaddvq_f32(v)
vaddvq_f32(v) == SumTo(v, 4)

\* vld1q_u8(base + off)
vld1q_u8(buf, pad, off) == Vec(16, LAMBDA k : Read(buf, pad, off + k))

\* veorq_u8(x, y)
veorq_u8(x, y) == Vec(16, LAMBDA k : Xor8(Lane(x, k), Lane(y, k)))

\* vcntq_u8(x)
vcntq_u8(x) == Vec(16, LAMBDA k : Popcnt8(Lane(x, k)))

\* vaddq_u8(x, y): 8-bit lanes
vaddq_u8(x, y) == Vec(16, LAMBDA k : (Lane(x, k) + Lane(y, k)) % 256)

\* vaddvq_u8(v): the sum across the vector, as the uint8_t it returns
vaddvq_u8(v) == SumTo(v, 16) % 256

\* ------------------------------------------------- AVX2 / AVX-512 intrinsics
\* _mm_loadu_ps(base + off)
mm_loadu_ps(buf, pad, off) == Vec(4, LAMBDA k : Read(buf, pad, off + k))

\* the first operand multiplied by itself, as in the norm accumulators
mm_fmadd_ps_squared(x, y, acc) == Vec(4, LAMBDA k : Lane(x, k) * Lane(x, k) + Lane(acc, k))

\* _mm_fmadd_ps(x, y, acc)
mm_fmadd_ps(x, y, acc) == Vec(4, LAMBDA k : Lane(x, k) * Lane(y, k) + Lane(acc, k))

\* _mm_hadd_ps(x, y)
mm_hadd_ps(x, y) ==
    Vec(4, LAMBDA k :
        IF k < 2 THEN Lane(x, 2 * k) + Lane(x, 2 * k + 1)
        ELSE Lane(y, 2 * (k - 2)) + Lane(y, 2 * (k - 2) + 1))

\* _mm_cvtsi128_si32(_mm_castps_si128(v)) read back through the union: lane 0
mm_low_f32(v) == Lane(v, 0)

\* _mm_loadu_si128((__m128i const*)(base + off)): 16 raw bytes
mm_loadu_si128(buf, pad, off) == Vec(16, LAMBDA k : Read(buf, pad, off + k) % 256)

\* _mm256_cvtepi8_epi16(v): sign-extend 16 bytes to 16 lanes of 16 bits
mm256_cvtepi8_epi16(v) ==
    Vec(16, LAMBDA k : IF Lane(v, k) >= 128 THEN Lane(v, k) - 256 ELSE Lane(v, k))

\* a value as a signed 16-bit lane
Wrap16(x) == ((x + 32768) % 65536) - 32768

\* _mm256_mullo_epi16(x, y)
mm256_mullo_epi16(x, y) == Vec(16, LAMBDA k : Wrap16(Lane(x, k) * Lane(y, k)))

\* _mm256_add_epi16(x, y)
mm256_add_epi16(x, y) == Vec(16, LAMBDA k : Wrap16(Lane(x, k) + Lane(y, k)))

\* _mm256_hadd_epi16(x, y): pairwise sums inside each 128-bit half, four of x
\* then four of y
mm256_hadd_epi16(x, y) == Vec(16, LAMBDA k :
    LET h == 8 * (k \div 8)
        j == k % 8
    IN IF j < 4 THEN Wrap16(Lane(x, h + 2 * j) + Lane(x, h + 2 * j + 1))
       ELSE Wrap16(Lane(y, h + 2 * (j - 4)) + Lane(y, h + 2 * (j - 4) + 1)))

\* _mm256_cvtsi256_si32(v): the low 32 bits, as the 16-bit lanes 0 and 1
mm256_cvtsi256_si32(v) == <<Lane(v, 0), Lane(v, 1)>>

\* (w & 0xFF) of a 32-bit value given as its two 16-bit halves
AndFF(w) == w[1] % 256

\* _mm_load_si128((__m128i const*)(base64 + off)): the 16 bytes of the 64-bit
\* words off and off + 1
mm_load_si128(buf, pad, off) == Vec(16, LAMBDA k : Read(buf, pad, 8 * off + k))

\* _mm_xor_si128(x, y), bytewise
mm_xor_si128(x, y) == Vec(16, LAMBDA k : Xor8(Lane(x, k), Lane(y, k)))

\* _mm_popcnt_epi64(x): the set bits of each 64-bit lane
mm_popcnt_epi64(x) ==
    Vec(2, LAMBDA q : SumTo(Vec(8, LAMBDA k : Popcnt8(Lane(x, 8 * q + k))), 8))

\* _mm_add_epi64(x, y)
mm_add_epi64(x, y) == Vec(2, LAMBDA q : Lane(x, q) + Lane(y, q))

\* ------------------------------------------------------------- inputs
\* the lengths a kernel is called with: any d for the scalable kernels, the
\* multiples its precondition asks for for the fixed-width ones
Lengths(k) ==
    IF k \in SveF32 \cup SveF16 THEN 0..MaxElems
    ELSE IF k \in SveU8 THEN {128 * q + 8 * t : q \in 0..MaxBlocks, t \in 0..MaxTailBytes}
    ELSE IF k \in NeonF32 \cup Avx2F32 THEN {4 * q : q \in 0..MaxBlocks}
    ELSE IF k \in Avx2I8 THEN {16 * q : q \in 0..MaxBlocks}
    ELSE {128 * q : q \in 0..MaxBlocks}

\* n elements, all base but one hot element (none when h = n)
Hot(n, h, base, hot) == Vec(n, LAMBDA k : IF k = h THEN hot ELSE base)

BufsA(k, n) ==
    IF k \in HammingKernels THEN {Hot(n, h, 0, 255) : h \in 0..n}
    ELSE IF k \in Avx2I8 THEN {Hot(n, h, 1, -3) : h \in 0..n}
    ELSE {Hot(n, h, 1, 2) : h \in 0..n}

BufsB(k, n) ==
    IF k \in HammingKernels THEN {Hot(n, n, 0, 0), Hot(n, n, 15, 15)}
    ELSE IF k \in Avx2I8 THEN {Hot(n, n, 1, 1), Hot(n, n, -1, -1)}
    ELSE {Hot(n, n, 1, 1), Vec(n, LAMBDA j : j + 1)}

\* what the memory after a buffer may hold
Pads(k) == IF k \in HammingKernels THEN {0, 255} ELSE {0, 1}

\* svcntb() of the hardware: 128-bit and 256-bit scalable vectors
VectorBytes(k) == IF k \in SveKernels THEN {16, 32} ELSE {16}

\* the forms a build may pick for a _x intrinsic
XForms(k) == IF k \in SveKernels THEN {"merge_acc", "merge_op", "zero"} ELSE {"merge_acc"}

Unused == Zeros(0)

Init ==
    /\ kernel \in Kernels
    /\ d \in Lengths(kernel)
    /\ a \in BufsA(kernel, DeclLen(kernel, d))
    /\ b \in BufsB(kernel, DeclLen(kernel, d))
    /\ padA \in Pads(kernel)
    /\ padB \in Pads(kernel)
    /\ cntb \in VectorBytes(kernel)
    /\ xform \in XForms(kernel)
    /\ pc = "loop"
    /\ i = 0
    /\ pg_vec = IF kernel \in SveKernels THEN svwhilelt(ElemBytes(kernel), 0, d) ELSE {}
    /\ ab_vec = CASE kernel \in SveF32 \cup SveF16 -> Zeros(svcnt(ElemBytes(kernel)))
                  [] kernel \in NeonF32 \cup Avx2F32 -> Zeros(4)
                  [] kernel \in Avx2I8 -> Zeros(16)
                  [] OTHER -> Unused
    /\ ab_vec_ba = ab_vec
    /\ a2_vec = CASE kernel = "simsimd_cos_f32sve" -> Zeros(svcnt(4))
                  [] kernel \in CosKernels -> Zeros(4)
                  [] OTHER -> Unused
    /\ b2_vec = a2_vec
    /\ d2_vec = IF kernel \in EuclideanKernels
                THEN Zeros(svcnt(ElemBytes(kernel))) ELSE Unused
    /\ d_vec = CASE kernel \in SveU8 -> Zeros(cntb)
                 [] kernel \in NeonU8 -> Zeros(16)
                 [] kernel \in Avx512U8 -> Zeros(2)
                 [] OTHER -> Unused
    /\ d_vec_ba = d_vec
    /\ result = 0
    /\ result_ba = 0
    /\ iters = 0
    /\ reads = 0

\* i += n on a size_t
Advance(n) == (i + n) % SizeMod

\* what every loop body leaves alone, and the counting of the body
Body(extent) ==
    /\ iters' = iters + 1
    /\ reads' = Max(reads, extent)
    /\ UNCHANGED <<inputs, result, result_ba>>

\* what every return leaves alone
Return == 
    /\ pc' = "done"
    /\ UNCHANGED <<inputs, i, pg_vec, accs, iters, reads>>

\* ----------------------------------------------------- scalable kernels
\* the end of a do-while body: advance, recompute the predicate with the
\* width the code names, test it
SveNext(step, es_next) ==
    /\ i' = Advance(step)
    /\ pg_vec' = svwhilelt(es_next, Advance(step), d)
    /\ pc' = IF svptest_any(svptrue(es_next), svwhilelt(es_next, Advance(step), d))
             THEN "loop" ELSE "exit"

SveDotLoop(k, es) ==
    /\ kernel = k /\ pc = "loop"
    /\ LET a_vec == svld1(es, pg_vec, a, padA, i)
           b_vec == svld1(es, pg_vec, b, padB, i)
       IN /\ ab_vec' = svmla_x(es, pg_vec, ab_vec, a_vec, b_vec)
          /\ ab_vec_ba' = svmla_x(es, pg_vec, ab_vec_ba, b_vec, a_vec)
    /\ SveNext(svcnt(es), es)
    /\ Body(svld1Extent(es, pg_vec, i))
    /\ UNCHANGED <<a2_vec, b2_vec, d2_vec, d_vec, d_vec_ba>>

SveDotReturn(k, es) ==
    /\ kernel = k /\ pc = "exit"
    /\ result' = svaddv(es, svptrue(es), ab_vec)
    /\ result_ba' = svaddv(es, svptrue(es), ab_vec_ba)
    /\ Return

Loop_dot_f32sve == SveDotLoop("simsimd_dot_f32sve", 4)

Return_dot_f32sve == SveDotReturn("simsimd_dot_f32sve", 4)

Loop_dot_f16sve == SveDotLoop("simsimd_dot_f16sve", 2)

Return_dot_f16sve == SveDotReturn("simsimd_dot_f16sve", 2)

Loop_cos_f32sve ==
    /\ kernel = "simsimd_cos_f32sve" /\ pc = "loop"
    /\ LET a_vec == svld1(4, pg_vec, a, padA, i)
           b_vec == svld1(4, pg_vec, b, padB, i)
       IN /\ ab_vec' = svmla_x(4, pg_vec, ab_vec, a_vec, b_vec)
          /\ a2_vec' = svmla_x(4, pg_vec, a2_vec, a_vec, a_vec)
          /\ b2_vec' = svmla_x(4, pg_vec, b2_vec, b_vec, b_vec)
    /\ SveNext(svcnt(4), 4)
    /\ Body(svld1Extent(4, pg_vec, i))
    /\ UNCHANGED <<d2_vec, d_vec, ab_vec_ba, d_vec_ba>>

Return_cos_f32sve ==
    /\ kernel = "simsimd_cos_f32sve" /\ pc = "exit"
    /\ result' = CosOf(svaddv(4, svptrue(4), ab_vec),
                       svaddv(4, svptrue(4), a2_vec),
                       svaddv(4, svptrue(4), b2_vec))
    /\ UNCHANGED result_ba
    /\ Return

SveEuclideanLoop(k, es) ==
    /\ kernel = k /\ pc = "loop"
    /\ LET a_vec == svld1(es, pg_vec, a, padA, i)
           b_vec == svld1(es, pg_vec, b, padB, i)
           a_minus_b_vec == svsub_x(es, pg_vec, a_vec, b_vec)
       IN d2_vec' = svmla_x(es, pg_vec, d2_vec, a_minus_b_vec, a_minus_b_vec)
    /\ SveNext(svcnt(es), es)
    /\ Body(svld1Extent(es, pg_vec, i))
    /\ UNCHANGED <<ab_vec, a2_vec, b2_vec, d_vec, ab_vec_ba, d_vec_ba>>

SveEuclideanReturn(k, es) ==
    /\ kernel = k /\ pc = "exit"
    /\ result' = SqrtOf(svaddv(es, svptrue(es), d2_vec))
    /\ UNCHANGED result_ba
    /\ Return

Loop_euclidean_f32sve == SveEuclideanLoop("simsimd_euclidean_f32sve", 4)

Return_euclidean_f32sve == SveEuclideanReturn("simsimd_euclidean_f32sve", 4)

Loop_euclidean_f16sve == SveEuclideanLoop("simsimd_euclidean_f16sve", 2)

Return_euclidean_f16sve == SveEuclideanReturn("simsimd_euclidean_f16sve", 2)

\* one body of the byte Hamming loop on (x, y)
HammingSveBody(acc, x, padX, y, padY) ==
    LET a_vec == svld1(1, pg_vec, x, padX, i)
        b_vec == svld1(1, pg_vec, y, padY, i)
        a_xor_b_vec == sveor_u8_m(pg_vec, a_vec, b_vec)
    IN svadd_u8_m(pg_vec, acc, svcnt_u8_x(pg_vec, a_xor_b_vec))

Loop_hamming_u1x8sve ==
    /\ kernel = "simsimd_hamming_u1x8sve" /\ pc = "loop"
    /\ d_vec' = HammingSveBody(d_vec, a, padA, b, padB)
    /\ d_vec_ba' = HammingSveBody(d_vec_ba, b, padB, a, padA)
    /\ SveNext(svcnt(1) * 8, 4)
    /\ Body(svld1Extent(1, pg_vec, i))
    /\ UNCHANGED <<ab_vec, a2_vec, b2_vec, d2_vec, ab_vec_ba>>

Return_hamming_u1x8sve ==
    /\ kernel = "simsimd_hamming_u1x8sve" /\ pc = "exit"
    /\ result' = svaddv(1, svptrue(4), d_vec)
    /\ result_ba' = svaddv(1, svptrue(4), d_vec_ba)
    /\ Return

\* --------------------------------------------------- fixed-width kernels
\* for (size_t i = 0; i != bound; i += step): the body's bookkeeping
ForNext(step) ==
    /\ i' = Advance(step)
    /\ pc' = "loop"
    /\ UNCHANGED pg_vec

Loop_dot_f32x4neon ==
    /\ kernel = "simsimd_dot_f32x4neon" /\ pc = "loop" /\ i # d
    /\ ab_vec' = vmlaq_f32(ab_vec, vld1q_f32(a, padA, i), vld1q_f32(b, padB, i))
    /\ ab_vec_ba' = vmlaq_f32(ab_vec_ba, vld1q_f32(b, padB, i), vld1q_f32(a, padA, i))
    /\ ForNext(4)
    /\ Body(i + 4)
    /\ UNCHANGED <<a2_vec, b2_vec, d2_vec, d_vec, d_vec_ba>>

Return_dot_f32x4neon ==
    /\ kernel = "simsimd_dot_f32x4neon" /\ pc = "loop" /\ i = d
    /\ result' = vaddvq_f32(ab_vec)
    /\ result_ba' = vaddvq_f32(ab_vec_ba)
    /\ Return

Loop_cos_f32x4neon ==
    /\ kernel = "simsimd_cos_f32x4neon" /\ pc = "loop" /\ i # d
    /\ LET a_vec == vld1q_f32(a, padA, i)
           b_vec == vld1q_f32(b, padB, i)
       IN /\ ab_vec' = vmlaq_f32(ab_vec, a_vec, b_vec)
          /\ a2_vec' = vmlaq_f32(a2_vec, a_vec, a_vec)
          /\ b2_vec' = vmlaq_f32(b2_vec, b_vec, b_vec)
    /\ ForNext(4)
    /\ Body(i + 4)
    /\ UNCHANGED <<d2_vec, d_vec, ab_vec_ba, d_vec_ba>>

Return_cos_f32x4neon ==
    /\ kernel = "simsimd_cos_f32x4neon" /\ pc = "loop" /\ i = d
    /\ result' = CosOf(vaddvq_f32(ab_vec), vaddvq_f32(a2_vec), vaddvq_f32(b2_vec))
    /\ UNCHANGED result_ba
    /\ Return

\* one body of the NEON Hamming loop on (x, y)
HammingNeonBody(acc, x, padX, y, padY) ==
    LET a_vec == vld1q_u8(x, padX, i)
        b_vec == vld1q_u8(y, padY, i)
        a_xor_b_vec == veorq_u8(a_vec, b_vec)
    IN vaddq_u8(acc, vcntq_u8(a_xor_b_vec))

Loop_hamming_u1x128sve ==
    /\ kernel = "simsimd_hamming_u1x128sve" /\ pc = "loop" /\ i # d
    /\ d_vec' = HammingNeonBody(d_vec, a, padA, b, padB)
    /\ d_vec_ba' = HammingNeonBody(d_vec_ba, b, padB, a, padA)
    /\ ForNext(16)
    /\ Body(i + 16)
    /\ UNCHANGED <<ab_vec, a2_vec, b2_vec, d2_vec, ab_vec_ba>>

Return_hamming_u1x128sve ==
    /\ kernel = "simsimd_hamming_u1x128sve" /\ pc = "loop" /\ i = d
    /\ result' = vaddvq_u8(d_vec)
    /\ result_ba' = vaddvq_u8(d_vec_ba)
    /\ Return

\* the two _mm_hadd_ps and the extraction of lane 0
HaddReduce_f32(v) ==
    LET h1 == mm_hadd_ps(v, v)
        h2 == mm_hadd_ps(h1, h1)
    IN mm_low_f32(h2)

Loop_dot_f32x4avx2 ==
    /\ kernel = "simsimd_dot_f32x4avx2" /\ pc = "loop" /\ i # d
    /\ ab_vec' = mm_fmadd_ps(mm_loadu_ps(a, padA, i), mm_loadu_ps(b, padB, i), ab_vec)
    /\ ab_vec_ba' = mm_fmadd_ps(mm_loadu_ps(b, padB, i), mm_loadu_ps(a, padA, i), ab_vec_ba)
    /\ ForNext(4)
    /\ Body(i + 4)
    /\ UNCHANGED <<a2_vec, b2_vec, d2_vec, d_vec, d_vec_ba>>

Return_dot_f32x4avx2 ==
    /\ kernel = "simsimd_dot_f32x4avx2" /\ pc = "loop" /\ i = d
    /\ result' = HaddReduce_f32(ab_vec)
    /\ result_ba' = HaddReduce_f32(ab_vec_ba)
    /\ Return

\* one body of the int8 dot loop on (x, y)
DotI8Body(acc, x, padX, y, padY) ==
    mm256_add_epi16(acc,
        mm256_mullo_epi16(mm256_cvtepi8_epi16(mm_loadu_si128(x, padX, i)),
                          mm256_cvtepi8_epi16(mm_loadu_si128(y, padY, i))))

\* the three _mm256_hadd_epi16 and the low byte of the low 32 bits
DotI8Reduce(v) ==
    LET h1 == mm256_hadd_epi16(v, v)
        h2 == mm256_hadd_epi16(h1, h1)
        h3 == mm256_hadd_epi16(h2, h2)
    IN AndFF(mm256_cvtsi256_si32(h3))

Loop_dot_i8x16avx2 ==
    /\ kernel = "simsimd_dot_i8x16avx2" /\ pc = "loop" /\ i # d
    /\ ab_vec' = DotI8Body(ab_vec, a, padA, b, padB)
    /\ ab_vec_ba' = DotI8Body(ab_vec_ba, b, padB, a, padA)
    /\ ForNext(4)
    /\ Body(i + 16)
    /\ UNCHANGED <<a2_vec, b2_vec, d2_vec, d_vec, d_vec_ba>>

Return_dot_i8x16avx2 ==
    /\ kernel = "simsimd_dot_i8x16avx2" /\ pc = "loop" /\ i = d
    /\ result' = DotI8Reduce(ab_vec)
    /\ result_ba' = DotI8Reduce(ab_vec_ba)
    /\ Return

Loop_cos_f32x4avx2 ==
    /\ kernel = "simsimd_cos_f32x4avx2" /\ pc = "loop" /\ i # d
    /\ LET a_vec == mm_loadu_ps(a, padA, i)
           b_vec == mm_loadu_ps(b, padB, i)
       IN /\ ab_vec' = mm_fmadd_ps(a_vec, b_vec, ab_vec)
          /\ a2_vec' = mm_fmadd_ps(a_vec, a_vec, a2_vec)
          /\ b2_vec' = mm_fmadd_ps(b_vec, b_vec, b2_vec)
    /\ ForNext(4)
    /\ Body(i + 4)
    /\ UNCHANGED <<d2_vec, d_vec, ab_vec_ba, d_vec_ba>>

Return_cos_f32x4avx2 ==
    /\ kernel = "simsimd_cos_f32x4avx2" /\ pc = "loop" /\ i = d
    /\ result' = CosOf(HaddReduce_f32(ab_vec), HaddReduce_f32(a2_vec), HaddReduce_f32(b2_vec))
    /\ UNCHANGED result_ba
    /\ Return

\* size_t words = d / 128
words == d \div 128

\* one body of the AVX-512 Hamming loop on (x, y)
HammingAvx512Body(acc, x, padX, y, padY) ==
    mm_add_epi64(acc,
        mm_popcnt_epi64(mm_xor_si128(mm_load_si128(x, padX, i), mm_load_si128(y, padY, i))))

\* the loop that never meets its bound is followed for d + 2 bodies
Loop_hamming_u1x128avx512 ==
    /\ kernel = "simsimd_hamming_u1x128avx512" /\ pc = "loop" /\ i # words
    /\ iters <= d + 1
    /\ d_vec' = HammingAvx512Body(d_vec, a, padA, b, padB)
    /\ d_vec_ba' = HammingAvx512Body(d_vec_ba, b, padB, a, padA)
    /\ ForNext(2)
    /\ Body(8 * i + 16)
    /\ UNCHANGED <<ab_vec, a2_vec, b2_vec, d2_vec, ab_vec_ba>>

Return_hamming_u1x128avx512 ==
    /\ kernel = "simsimd_hamming_u1x128avx512" /\ pc = "loop" /\ i = words
    /\ result' = Lane(d_vec, 0) + Lane(d_vec, 1)
    /\ result_ba' = Lane(d_vec_ba, 0) + Lane(d_vec_ba, 1)
    /\ Return

\* ------------------------------------------------------- specification
Next ==
    \/ Loop_dot_f32sve \/ Return_dot_f32sve
    \/ Loop_dot_f16sve \/ Return_dot_f16sve
    \/ Loop_cos_f32sve \/ Return_cos_f32sve
    \/ Loop_euclidean_f32sve \/ Return_euclidean_f32sve
    \/ Loop_euclidean_f16sve \/ Return_euclidean_f16sve
    \/ Loop_hamming_u1x8sve \/ Return_hamming_u1x8sve
    \/ Loop_dot_f32x4neon \/ Return_dot_f32x4neon
    \/ Loop_cos_f32x4neon \/ Return_cos_f32x4neon
    \/ Loop_hamming_u1x128sve \/ Return_hamming_u1x128sve
    \/ Loop_dot_f32x4avx2 \/ Return_dot_f32x4avx2
    \/ Loop_dot_i8x16avx2 \/ Return_dot_i8x16avx2
    \/ Loop_cos_f32x4avx2 \/ Return_cos_f32x4avx2
    \/ Loop_hamming_u1x128avx512 \/ Return_hamming_u1x128avx512

Spec == Init /\ [][Next]_vars

\* ------------------------------------------------------------ references
\* the sum over n in 0..d-1 of a[n] * b[n]
DotRef == SumTo(Vec(d, LAMBDA n : Lane(a, n) * Lane(b, n)), d)

\* the number of bit positions n in 0..d-1 where a and b differ
HammingRef ==
    Cardinality({n \in 0..(d - 1) : Bit(Lane(a, n \div 8), n % 8) # Bit(Lane(b, n \div 8), n % 8)})

Returned == pc = "done"

\* --------------------------------------------------------------- claims
\* C1: simsimd_dot_i8x16avx2 returns the sum of a[n] * b[n] over n in 0..d-1
\* whenever d is a multiple of 16 and that sum lies in 0..255.
C1_DotI8IsSum ==
    (kernel = "simsimd_dot_i8x16avx2" /\ Returned /\ DotRef \in 0..255)
        => result = DotRef

\* C2: simsimd_hamming_u1x128avx512 returns the number of differing bits among
\* the d bits of a and b, for d a multiple of 128.
C2_HammingAvx512IsPopcount ==
    (kernel = "simsimd_hamming_u1x128avx512" /\ Returned) => result = HammingRef

\* C3: simsimd_dot_f32sve returns the sum of a[n] * b[n] over n in 0..d-1 for
\* every d and every lane count, whatever the _x multiply-accumulate leaves in
\* its inactive lanes.
C3_DotF32SveIsSum ==
    (kernel = "simsimd_dot_f32sve" /\ Returned) => result = DotRef

\* C4: simsimd_hamming_u1x8sve returns the number of differing bits among the d
\* bits of a and b, for every d and every byte-lane count.
C4_HammingSveIsPopcount ==
    (kernel = "simsimd_hamming_u1x8sve" /\ Returned) => result = HammingRef

\* C5: the NEON Hamming kernel, for d a multiple of 128 small enough that no
\* 8-bit lane sum overflows, runs one body per 128 bits of the d bits and
\* returns the untruncated number of differing bits.
C5_HammingNeonIsPopcount ==
    (kernel = "simsimd_hamming_u1x128sve" /\ Returned /\ (d \div 128) * 8 <= 255)
        => (result = HammingRef /\ iters * 128 = d)

\* the bound the counter of a fixed-width loop has to meet
LoopBound == IF kernel \in Avx512U8 THEN words ELSE d

\* C6: every kernel call terminates after a number of loop bodies proportional
\* to d: a body consumes at least one element (or bit) of the d and a do-while
\* runs one body at d = 0, so no call runs more than d + 1 bodies; and the
\* counter of a fixed-width loop, which leaves only on meeting its bound,
\* never steps past it.
C6_LoopReachesExit ==
    /\ iters <= d + 1
    /\ kernel \in FixedKernels => i <= LoopBound

\* C7: every index loaded from a or b is less than the declared length of the
\* buffer (d elements, or the bytes of d bits).
C7_ReadsInsideDeclaredLength == reads <= len

\* C8: for every dot-product and every Hamming kernel, kernel(a, b, d) =
\* kernel(b, a, d), the memory read by both calls being the same.
C8_Commutative ==
    (kernel \in DotKernels \cup HammingKernels /\ Returned) => result = result_ba

C8_Witness ==
    /\ kernel \in DotKernels \cup HammingKernels
    /\ Returned
    /\ a # b
    /\ iters >= 2
    /\ result # 0

\* C9: at the start of every body of a scalable kernel the active lanes of the
\* predicate are exactly the lanes j of the kernel's element width with
\* i + j < d, and the loop is left exactly when no lane is active.
C9_PredicateExact ==
    kernel \in SveKernels =>
        /\ pc \in {"loop", "exit"} =>
              pg_vec = {ElemBytes(kernel) * j :
                           j \in {j \in 0..(cntb \div ElemBytes(kernel) - 1) : i + j < d}}
        /\ pc = "exit" => pg_vec = {}
        /\ (pc = "loop" /\ iters > 0) => pg_vec # {}

\* the value a kernel returned is zero
ReturnedZero ==
    IF kernel \in EuclideanKernels THEN result.sqrt = 0 ELSE result = 0

\* C10: for d = 0 every dot-product, Euclidean and Hamming kernel loads nothing
\* and returns 0, the fixed-width kernels after no body and the scalable
\* kernels after exactly one body.
C10_EmptyInput ==
    (d = 0 /\ kernel \in DotKernels \cup EuclideanKernels \cup HammingKernels) =>
        /\ reads = 0
        /\ iters <= (IF kernel \in SveKernels THEN 1 ELSE 0)
        /\ Returned =>
              /\ ReturnedZero
              /\ iters = (IF kernel \in SveKernels THEN 1 ELSE 0)

C10_Witness ==
    /\ d = 0
    /\ kernel \in SveKernels \cap (DotKernels \cup EuclideanKernels \cup HammingKernels)
    /\ xform # "merge_acc"
    /\ Returned
    /\ iters = 1

====
